---------------------------- MODULE Spec2Model ----------------------------
(***************************************************************************)
(* Model of the Sparkpython notebook: the header filter over raw_rdd and   *)
(* row_to_labeled_point, the function that turns one raw text line into a  *)
(* LabeledPoint or raises.                                                 *)
(*                                                                         *)
(* A line is a sequence of one-character strings, so that split(',') and   *)
(* strip('"') are computed character by character as Python computes them. *)
(***************************************************************************)
EXTENDS Integers, Sequences, FiniteSets, TLC

(***************************************************************************)
(* Bounds of the model.                                                    *)
(***************************************************************************)
\* deepest nesting of double quotes wrapped around a field of an input line
MaxQuotes == 1
\* most segments appended to a five-field line
MaxExtra == 1
\* longest feed (raw_rdd) of the pass specification
MaxLines == 3

(***************************************************************************)
(* Characters and string literals.                                         *)
(***************************************************************************)
COMMA == ","
QUOTE == "\""

ADULTS == <<"a", "d", "u", "l", "t", "s">>
CHILD == <<"c", "h", "i", "l", "d">>
MAN == <<"m", "a", "n">>
WOMEN == <<"w", "o", "m", "e", "n">>
YES == <<"y", "e", "s">>
NO == <<"n", "o">>

Digits == {"0", "1", "2", "3", "4", "5", "6", "7", "8", "9"}

\* int(c) for a one-character string c that is a decimal digit
DigitVal(c) ==
    CASE c = "0" -> 0 [] c = "1" -> 1 [] c = "2" -> 2 [] c = "3" -> 3
      [] c = "4" -> 4 [] c = "5" -> 5 [] c = "6" -> 6 [] c = "7" -> 7
      [] c = "8" -> 8 [] c = "9" -> 9

(***************************************************************************)
(* str.split(',') and str.strip('"').                                      *)
(***************************************************************************)
\* index of the first comma of s, 0 when s holds none
RECURSIVE FindComma(_, _)
FindComma(s, i) ==
    IF i > Len(s) THEN 0
    ELSE IF s[i] = COMMA THEN i
    ELSE FindComma(s, i + 1)

\* line.split(','): the segments between commas; a line without a comma
\* (the empty line too) is one segment
RECURSIVE split(_)
split(s) ==
    LET i == FindComma(s, 1)
    IN IF i = 0 THEN <<s>>
       ELSE <<SubSeq(s, 1, i - 1)>> \o split(SubSeq(s, i + 1, Len(s)))

RECURSIVE lstrip(_)
lstrip(s) == IF s # <<>> /\ Head(s) = QUOTE THEN lstrip(Tail(s)) ELSE s

RECURSIVE rstrip(_)
rstrip(s) ==
    IF s # <<>> /\ s[Len(s)] = QUOTE THEN rstrip(SubSeq(s, 1, Len(s) - 1)) ELSE s

\* a mutant of strip: only the leading quotes are removed
StripLeadingOnly(s) == lstrip(s)

\* segs.strip('"'): every leading and every trailing double quote removed
strip(s) == rstrip(lstrip(s))

\* [segs.strip('"') for segs in line.split(',')]
Segments(line) == LET ss == split(line) IN [k \in 1..Len(ss) |-> strip(ss[k])]


(***************************************************************************)
(* row_to_labeled_point, statement by statement.                           *)
(***************************************************************************)
\* what an invocation leaves behind: a LabeledPoint(label, features) or the
\* exception it raised
LabeledPoint(label, features) == [kind |-> "LabeledPoint", ret |-> <<label, features>>]
Raised(exc) == [kind |-> exc, ret |-> <<>>]

\* a mutant of Unpacks: segments after the fifth are dropped
UnpacksFirstFive(segs) == Len(segs) >= 5

\* passenger_id, klass, age, sex, survived = [...]: the unpacking needs
\* exactly five values, else ValueError
Unpacks(segs) == Len(segs) = 5

\* a mutant of KlassError: a bad class field is reported as an unknown value
KlassErrorAsUnknown(klass) ==
    IF klass = <<>> \/ Head(klass) \notin Digits THEN "RuntimeError" ELSE "none"

\* klass[0] raises IndexError on the empty string, int() raises ValueError
\* on a character that is no digit
KlassError(klass) ==
    IF klass = <<>> THEN "IndexError"
    ELSE IF Head(klass) \notin Digits THEN "ValueError"
    ELSE "none"

\* a mutant of KlassIndex: the class digit is not zero-based
KlassIndexNotZeroBased(klass) == DigitVal(Head(klass))

\* klass = int(klass[0]) - 1
KlassIndex(klass) == DigitVal(Head(klass)) - 1

\* a mutant of Unknown: an unrecognized sex counts as man
UnknownIgnoresSex(age, sex, survived) ==
    \/ age \notin {ADULTS, CHILD}
    \/ survived \notin {YES, NO}

\* a mutant of Unknown: the survived field is not checked
UnknownIgnoresSurvived(age, sex, survived) ==
    \/ age \notin {ADULTS, CHILD}
    \/ sex \notin {MAN, WOMEN}

\* the condition of the if that raises RuntimeError('unknown value')
Unknown(age, sex, survived) ==
    \/ age \notin {ADULTS, CHILD}
    \/ sex \notin {MAN, WOMEN}
    \/ survived \notin {YES, NO}

\* features = [klass, 1 if age == 'adults' else 0, 1 if sex == 'women' else 0]
Features(klass, age, sex) ==
    <<klass, IF age = ADULTS THEN 1 ELSE 0, IF sex = WOMEN THEN 1 ELSE 0>>

\* 1 if survived == 'yes' else 0
Label(survived) == IF survived = YES THEN 1 ELSE 0

\* the whole function, run sequentially on one line
row_to_labeled_point(line) ==
    LET segs == Segments(line)
    IN IF ~Unpacks(segs) THEN Raised("ValueError")
       ELSE IF KlassError(segs[2]) # "none" THEN Raised(KlassError(segs[2]))
       ELSE IF Unknown(segs[3], segs[4], segs[5]) THEN Raised("RuntimeError")
       ELSE LabeledPoint(Label(segs[5]),
                         Features(KlassIndex(segs[2]), segs[3], segs[4]))

(***************************************************************************)
(* The header filter.                                                      *)
(***************************************************************************)
\* a mutant of filter: only the first line of the feed is dropped
DropFirstLine(rdd, h) == IF rdd = <<>> THEN <<>> ELSE Tail(rdd)

\* raw_rdd.filter(lambda line: line != header): the lines are visited in
\* order and kept when the predicate holds
RECURSIVE filter(_, _)
filter(rdd, h) ==
    IF rdd = <<>> THEN <<>>
    ELSE IF Head(rdd) # h THEN <<Head(rdd)>> \o filter(Tail(rdd), h)
    ELSE filter(Tail(rdd), h)

(***************************************************************************)
(* Input lines.                                                            *)
(***************************************************************************)
HEADER == <<"i", "d", ",", "c", "l", "a", "s", "s", ",", "a", "g", "e", ",",
            "s", "e", "x", ",", "s", "u", "r", "v", "i", "v", "e", "d">>
PassengerId == <<"7">>
PassengerIds == {PassengerId, <<>>}
KlassVals == {<<"1", "s", "t">>, <<"3", "r", "d">>, <<"4", "t", "h">>, <<"0">>,
              <<>>, <<"s", "t">>}
AgeVals == {ADULTS, CHILD, <<"a", "d", "u", "l", "t">>}
SexVals == {MAN, WOMEN, <<"w", "o", "m", "a", "n">>}
SurvivedVals == {YES, NO, <<"Y", "e", "s">>}
ExtraSegment == <<"x">>

\* s wrapped in d double quotes on each side
RECURSIVE Wrap(_, _)
Wrap(s, d) == IF d = 0 THEN s ELSE Wrap(<<QUOTE>> \o s \o <<QUOTE>>, d - 1)

\* the fields joined by commas
RECURSIVE Join(_)
Join(fs) ==
    IF fs = <<>> THEN <<>>
    ELSE IF Len(fs) = 1 THEN fs[1]
    ELSE fs[1] \o <<COMMA>> \o Join(Tail(fs))

BaseFields ==
    {<<p, k, a, s, v>> :
        p \in PassengerIds, k \in KlassVals, a \in AgeVals, s \in SexVals, v \in SurvivedVals}

\* which fields are quoted, and how deep
QuotePatterns ==
    {[i \in 1..5 |-> IF i \in S THEN d ELSE 0] :
        S \in SUBSET (1..5), d \in 1..MaxQuotes}

FiveFieldLines ==
    {Join([i \in 1..5 |-> Wrap(f[i], q[i])]) : f \in BaseFields, q \in QuotePatterns}

\* lines cut short and lines with segments appended
OtherLines ==
    {Join(SubSeq(f, 1, n)) : f \in BaseFields, n \in 0..4}
    \cup {Join(f \o [i \in 1..e |-> ExtraSegment]) : f \in BaseFields, e \in 1..MaxExtra}

InputLines == FiveFieldLines \cup OtherLines

\* the lines of the feeds of the pass specification
GoodLine == Join(<<PassengerId, <<"1", "s", "t">>, ADULTS, WOMEN, YES>>)
ChildLine == Join(<<PassengerId, <<"3", "r", "d">>, CHILD, MAN, NO>>)
BadLine == Join(<<PassengerId, <<"2", "n", "d">>, <<"a", "d", "u", "l", "t">>, MAN, NO>>)
FeedLines == {HEADER, <<>>, GoodLine, ChildLine, BadLine}

RECURSIVE SeqsUpTo(_, _)
SeqsUpTo(S, n) ==
    IF n = 0 THEN {<<>>}
    ELSE LET shorter == SeqsUpTo(S, n - 1)
         IN shorter \cup {Append(q, x) : q \in {r \in shorter : Len(r) = n - 1}, x \in S}

(***************************************************************************)
(* State.                                                                  *)
(***************************************************************************)
VARIABLES
    raw_rdd,    \* the feed: the lines of the text file, in order
    header,     \* the notebook's global header
    data_rdd,   \* the feed without its header lines
    driver,     \* the notebook cell the driver is at
    pc,         \* per worker: the statement of row_to_labeled_point it is at, and for which line
    locals,     \* per invocation: line and the unpacked names, gone when it ends
    handed,     \* the lines of data_rdd handed to row_to_labeled_point so far
    outcome     \* per line of data_rdd: what its invocation returned or raised

vars == <<raw_rdd, header, data_rdd, driver, pc, locals, handed, outcome>>

Workers == {"w1", "w2"}
Unbound == <<"<unbound>">>
Pending == [kind |-> "pending", ret |-> <<>>]
Idle == [at |-> "idle", idx |-> 0]
NoLocals == [line |-> Unbound, segs |-> <<>>]

\* a mutant of FrameOf: the names are module globals, one set for all workers
GlobalFrame(w) == "w1"

\* the names line, passenger_id, klass, age, sex, survived are local to the
\* invocation: each worker's call has its own
FrameOf(w) == w

InitRest ==
    /\ header = Unbound
    /\ data_rdd = <<>>
    /\ driver = "first"
    /\ pc = [w \in Workers |-> Idle]
    /\ locals = [w \in Workers |-> NoLocals]
    /\ handed = {}
    /\ outcome = <<>>

\* one input line behind a header
Init ==
    /\ raw_rdd \in {<<HEADER, l>> : l \in InputLines}
    /\ InitRest

\* any feed of up to MaxLines lines
InitPass ==
    /\ raw_rdd \in SeqsUpTo(FeedLines, MaxLines)
    /\ InitRest

(***************************************************************************)
(* The driver's cells.                                                     *)
(***************************************************************************)
\* header = raw_rdd.first(); first() raises ValueError on an empty RDD
First ==
    /\ driver = "first"
    /\ IF raw_rdd = <<>>
       THEN /\ driver' = "ValueError"
            /\ UNCHANGED header
       ELSE /\ header' = raw_rdd[1]
            /\ driver' = "filter"
    /\ UNCHANGED <<raw_rdd, data_rdd, pc, locals, handed, outcome>>

\* data_rdd = raw_rdd.filter(lambda line: line != header)
FilterHeader ==
    /\ driver = "filter"
    /\ data_rdd' = filter(raw_rdd, header)
    /\ outcome' = [i \in 1..Len(data_rdd') |-> Pending]
    /\ driver' = "map"
    /\ UNCHANGED <<raw_rdd, header, pc, locals, handed>>

(***************************************************************************)
(* One invocation of row_to_labeled_point by worker w.                     *)
(***************************************************************************)
\* a mutant of Raise: the exception is caught and dropped
Swallow(w, exc) ==
    /\ pc' = [pc EXCEPT ![w] = Idle]
    /\ locals' = [locals EXCEPT ![FrameOf(w)] = NoLocals]
    /\ UNCHANGED outcome

\* the invocation ends by raising exc, which reaches its caller
Raise(w, exc) ==
    /\ outcome' = [outcome EXCEPT ![pc[w].idx] = Raised(exc)]
    /\ pc' = [pc EXCEPT ![w] = Idle]
    /\ locals' = [locals EXCEPT ![FrameOf(w)] = NoLocals]

\* row_to_labeled_point(line) is called on a line of data_rdd
Call(w, i) ==
    /\ driver = "map"
    /\ pc[w].at = "idle"
    /\ i \in 1..Len(data_rdd)
    /\ i \notin handed
    /\ handed' = handed \cup {i}
    /\ pc' = [pc EXCEPT ![w] = [at |-> "split", idx |-> i]]
    /\ locals' = [locals EXCEPT ![FrameOf(w)] = [line |-> data_rdd[i], segs |-> <<>>]]
    /\ UNCHANGED <<raw_rdd, header, data_rdd, driver, outcome>>

\* passenger_id, klass, age, sex, survived =
\*     [segs.strip('"') for segs in line.split(',')]
SplitStrip(w) ==
    /\ pc[w].at = "split"
    /\ LET segs == Segments(locals[FrameOf(w)].line)
       IN IF Unpacks(segs)
          THEN /\ locals' = [locals EXCEPT ![FrameOf(w)].segs = segs]
               /\ pc' = [pc EXCEPT ![w].at = "klass"]
               /\ UNCHANGED outcome
          ELSE Raise(w, "ValueError")
    /\ UNCHANGED <<raw_rdd, header, data_rdd, driver, handed>>

\* klass = int(klass[0]) - 1
ParseKlass(w) ==
    /\ pc[w].at = "klass"
    /\ LET klass == locals[FrameOf(w)].segs[2]
       IN IF KlassError(klass) = "none"
          THEN /\ locals' = [locals EXCEPT ![FrameOf(w)].segs[2] = KlassIndex(klass)]
               /\ pc' = [pc EXCEPT ![w].at = "check"]
               /\ UNCHANGED outcome
          ELSE Raise(w, KlassError(klass))
    /\ UNCHANGED <<raw_rdd, header, data_rdd, driver, handed>>

\* if (age not in [...] or sex not in [...] or survived not in [...]):
\*     raise RuntimeError('unknown value')
Check(w) ==
    /\ pc[w].at = "check"
    /\ LET l == locals[FrameOf(w)].segs
       IN IF Unknown(l[3], l[4], l[5])
          THEN Raise(w, "RuntimeError")
          ELSE /\ pc' = [pc EXCEPT ![w].at = "build"]
               /\ UNCHANGED <<locals, outcome>>
    /\ UNCHANGED <<raw_rdd, header, data_rdd, driver, handed>>

\* features = [...]; return LabeledPoint(1 if survived == 'yes' else 0, features)
Build(w) ==
    /\ pc[w].at = "build"
    /\ LET l == locals[FrameOf(w)].segs
       IN outcome' = [outcome EXCEPT ![pc[w].idx] =
                         LabeledPoint(Label(l[5]), Features(l[2], l[3], l[4]))]
    /\ pc' = [pc EXCEPT ![w] = Idle]
    /\ locals' = [locals EXCEPT ![FrameOf(w)] = NoLocals]
    /\ UNCHANGED <<raw_rdd, header, data_rdd, driver, handed>>

Next ==
    \/ First
    \/ FilterHeader
    \/ \E w \in Workers, i \in 1..MaxLines : Call(w, i)
    \/ \E w \in Workers : SplitStrip(w)
    \/ \E w \in Workers : ParseKlass(w)
    \/ \E w \in Workers : Check(w)
    \/ \E w \in Workers : Build(w)

\* row_to_labeled_point applied to one input line
Spec == Init /\ [][Next]_vars

\* a pass over a feed of several lines by the workers, in any interleaving
SpecPass == InitPass /\ [][Next]_vars


(***************************************************************************)
(* Properties.                                                             *)
(***************************************************************************)
\* the lines whose invocation has ended
Finished == {i \in DOMAIN outcome : outcome[i] # Pending}

\* the number of comma-separated segments of a line
SegmentCount(line) == Cardinality({k \in 1..Len(line) : line[k] = COMMA}) + 1

\* the quote-stripped fields of a line
Fields(line) == Segments(line)

LeadingDigit(f) == f[2] # <<>> /\ Head(f[2]) \in Digits
AgeKnown(f) == f[3] \in {ADULTS, CHILD}
SexKnown(f) == f[4] \in {MAN, WOMEN}
SurvivedKnown(f) == f[5] \in {YES, NO}
Structural(o) == o.kind \in {"ValueError", "IndexError"}
Validation(o) == o.kind = "RuntimeError"
IsRecord(o) == o.kind = "LabeledPoint"

\* C1: a five-field line with a leading class digit d and recognized age,
\* sex and survival fields returns label 1 for yes and 0 for no, and
\* features [d - 1, adults?, women?]; (1st, adults, women, yes) gives
\* label 1 and [0,1,1], (3rd, child, man, no) gives label 0 and [2,0,0],
\* whatever the passenger id.
C1_LabelAndFeatures ==
    \A i \in Finished :
        LET f == Fields(data_rdd[i])
        IN (SegmentCount(data_rdd[i]) = 5 /\ LeadingDigit(f)
                /\ AgeKnown(f) /\ SexKnown(f) /\ SurvivedKnown(f))
           => /\ outcome[i].kind = "LabeledPoint"
              /\ outcome[i].ret =
                   <<IF f[5] = YES THEN 1 ELSE 0,
                     <<DigitVal(f[2][1]) - 1,
                       IF f[3] = ADULTS THEN 1 ELSE 0,
                       IF f[4] = WOMEN THEN 1 ELSE 0>> >>
              /\ (<<f[2], f[3], f[4], f[5]>> = <<<<"1", "s", "t">>, ADULTS, WOMEN, YES>>
                    => outcome[i].ret = <<1, <<0, 1, 1>> >>)
              /\ (<<f[2], f[3], f[4], f[5]>> = <<<<"3", "r", "d">>, CHILD, MAN, NO>>
                    => outcome[i].ret = <<0, <<2, 0, 0>> >>)

\* a quoted (1st, adults, women, yes) line with an empty passenger id has
\* returned label 1, features [0,1,1]
C1_Witness ==
    \E i \in Finished :
        /\ Fields(data_rdd[i]) = <<<<>>, <<"1", "s", "t">>, ADULTS, WOMEN, YES>>
        /\ QUOTE \in {data_rdd[i][k] : k \in 1..Len(data_rdd[i])}
        /\ outcome[i] = LabeledPoint(1, <<0, 1, 1>>)

\* C2 as stated: a five-field line whose age field is unrecognized, or whose
\* survival field is unrecognized, raises the 'unknown value' error whatever
\* its other fields are, a class field without a leading digit included.
C2_AsStated ==
    \A i \in Finished :
        LET f == Fields(data_rdd[i])
        IN (SegmentCount(data_rdd[i]) = 5 /\ (~AgeKnown(f) \/ ~SurvivedKnown(f)))
           => Validation(outcome[i])

\* C2 amended: a five-field line whose class field starts with a digit and
\* whose age field is unrecognized, or whose survival field is unrecognized,
\* raises the 'unknown value' error whatever its sex field and its other
\* checked fields are.
C2_ValidationErrorGivenClassDigit ==
    \A i \in Finished :
        LET f == Fields(data_rdd[i])
        IN (SegmentCount(data_rdd[i]) = 5 /\ LeadingDigit(f)
                /\ (~AgeKnown(f) \/ ~SurvivedKnown(f)))
           => /\ Validation(outcome[i])
              /\ outcome[i].ret = <<>>

\* a line with a class digit, a recognized age and sex and an unrecognized
\* survival field has raised the 'unknown value' error
C2_Witness ==
    \E i \in Finished :
        LET f == Fields(data_rdd[i])
        IN /\ SegmentCount(data_rdd[i]) = 5 /\ LeadingDigit(f)
           /\ AgeKnown(f) /\ SexKnown(f) /\ ~SurvivedKnown(f)
           /\ outcome[i] = Raised("RuntimeError")

\* C3: a line of fewer or more than five comma-separated segments raises the
\* structural error and yields no record.
C3_WrongSegmentCountRaises ==
    \A i \in Finished :
        SegmentCount(data_rdd[i]) # 5
        => /\ outcome[i].kind = "ValueError"
           /\ outcome[i].ret = <<>>

\* a line of six segments, the first five of them valid, has raised
C3_Witness ==
    \E i \in Finished :
        LET f == Fields(data_rdd[i])
        IN /\ SegmentCount(data_rdd[i]) = 6
           /\ LeadingDigit(f) /\ AgeKnown(f) /\ SexKnown(f) /\ SurvivedKnown(f)
           /\ outcome[i] = Raised("ValueError")

\* C4: for a five-field line with a leading class digit, a record is built
\* if and only if the age, sex and survival fields are all recognized; when
\* one of them is not, nothing is returned.
C4_RecordIffAllRecognized ==
    \A i \in Finished :
        LET f == Fields(data_rdd[i])
        IN (SegmentCount(data_rdd[i]) = 5 /\ LeadingDigit(f))
           => /\ IsRecord(outcome[i]) <=> (AgeKnown(f) /\ SexKnown(f) /\ SurvivedKnown(f))
              /\ ~IsRecord(outcome[i]) => outcome[i].ret = <<>>

\* a line whose only unrecognized field is sex has been rejected
C4_Witness ==
    \E i \in Finished :
        LET f == Fields(data_rdd[i])
        IN /\ SegmentCount(data_rdd[i]) = 5 /\ LeadingDigit(f)
           /\ AgeKnown(f) /\ ~SexKnown(f) /\ SurvivedKnown(f)
           /\ ~IsRecord(outcome[i])
           /\ outcome[i].ret = <<>>

\* the line with the segments in S each wrapped in one more pair of quotes
WrapFields(line, S) ==
    LET ss == split(line)
    IN Join([k \in 1..Len(ss) |-> IF k \in S THEN Wrap(ss[k], 1) ELSE ss[k]])

\* C5: wrapping any subset of a line's fields in double quotes gives the
\* same result, record or error, as the line itself.
C5_QuotingIrrelevant ==
    \A i \in Finished :
        \A S \in SUBSET (1..5) :
            row_to_labeled_point(WrapFields(data_rdd[i], S)) = outcome[i]

\* an unquoted line has returned a record, and so does the line with its
\* class and age fields quoted
C5_Witness ==
    \E i \in Finished :
        /\ QUOTE \notin {data_rdd[i][k] : k \in 1..Len(data_rdd[i])}
        /\ IsRecord(outcome[i])
        /\ WrapFields(data_rdd[i], {2, 3}) # data_rdd[i]
        /\ row_to_labeled_point(WrapFields(data_rdd[i], {2, 3})) = outcome[i]

\* C6: feature 0 of every record built is one of 0, 1, 2.
C6_ClassIndexInRange ==
    \A i \in Finished :
        IsRecord(outcome[i]) => outcome[i].ret[2][1] \in {0, 1, 2}

\* a worker's own position did not change, so its locals did not either
OthersLocalsUntouched ==
    \A w \in Workers : pc'[w] = pc[w] => locals'[w] = locals[w]

\* the statements of the function leave the notebook's globals alone
GlobalsUntouched ==
    driver = "map" => UNCHANGED <<raw_rdd, header, data_rdd>>

\* C7 (state part): the outcome of every line equals that of the function
\* applied to that line alone
C7_OutcomeOfLineAlone ==
    \A i \in Finished : outcome[i] = row_to_labeled_point(data_rdd[i])

\* C7: in any interleaving of the workers the outcome of each line is the
\* one a sequential call gives for that line, and no step of an invocation
\* changes the locals of another invocation or the globals.
C7_PureAndStateless ==
    /\ []C7_OutcomeOfLineAlone
    /\ [][OthersLocalsUntouched /\ GlobalsUntouched]_vars

\* one line has its outcome while a worker is in the middle of the
\* invocation for another, different line
C7_Witness ==
    \E i \in Finished, w \in Workers :
        /\ pc[w].at = "check"
        /\ pc[w].idx # i
        /\ data_rdd[pc[w].idx] # data_rdd[i]
        /\ IsRecord(outcome[i])

\* C8: a five-field line whose class field is empty or starts with no digit
\* raises a structural error, not the 'unknown value' error, and never
\* reaches the age/sex/survival check.
C8_ClassErrorBeforeChecks ==
    /\ \A i \in Finished :
          LET f == Fields(data_rdd[i])
          IN (SegmentCount(data_rdd[i]) = 5 /\ ~LeadingDigit(f))
             => /\ Structural(outcome[i])
                /\ ~Validation(outcome[i])
    /\ \A w \in Workers :
          pc[w].at \in {"check", "build"}
          => LeadingDigit(Fields(data_rdd[pc[w].idx]))

\* a line with an empty class field and unrecognized age, sex and survival
\* fields has raised IndexError
C8_Witness ==
    \E i \in Finished :
        LET f == Fields(data_rdd[i])
        IN /\ SegmentCount(data_rdd[i]) = 5
           /\ f[2] = <<>>
           /\ ~AgeKnown(f) /\ ~SexKnown(f) /\ ~SurvivedKnown(f)
           /\ outcome[i] = Raised("IndexError")

\* the lines a worker is in the middle of
InFlight == {pc[w].idx : w \in {v \in Workers : pc[v].at # "idle"}}

WellFormed(line) ==
    /\ SegmentCount(line) = 5
    /\ LET f == Fields(line)
       IN LeadingDigit(f) /\ AgeKnown(f) /\ SexKnown(f) /\ SurvivedKnown(f)

\* C9: every line handed to the function and no longer in flight has exactly
\* one outcome, a record or a structural error or a validation error; only
\* well-formed lines yield records; records plus errors count the lines
\* processed.
C9_EveryLineHasOneOutcome ==
    /\ \A i \in handed \ InFlight :
          /\ IsRecord(outcome[i]) \/ Structural(outcome[i]) \/ Validation(outcome[i])
          /\ IsRecord(outcome[i]) <=> WellFormed(data_rdd[i])
          /\ IsRecord(outcome[i]) <=> outcome[i].ret # <<>>
    /\ \A i \in DOMAIN outcome : i \notin handed \/ i \in InFlight => outcome[i] = Pending
    /\ Cardinality({i \in DOMAIN outcome : IsRecord(outcome[i])})
         + Cardinality({i \in DOMAIN outcome :
                           Structural(outcome[i]) \/ Validation(outcome[i])})
       = Cardinality(handed \ InFlight)

\* a pass has ended with a record for one line and an error for another
C9_Witness ==
    /\ driver = "map"
    /\ handed = DOMAIN outcome
    /\ InFlight = {}
    /\ \E i, j \in handed : IsRecord(outcome[i]) /\ Validation(outcome[j])

\* the positions of raw_rdd whose line differs from its first line
Kept == {i \in 1..Len(raw_rdd) : raw_rdd[i] # raw_rdd[1]}

\* the k-th smallest member of Kept
KthKept(k) == CHOOSE i \in Kept : Cardinality({j \in Kept : j < i}) = k - 1

\* C10: the filter removes every line equal to the first line and nothing
\* else, keeps the order of the others, the empty line included, and no
\* line equal to the first one reaches the function.
C10_FilterRemovesExactlyHeader ==
    driver = "map"
    => /\ header = raw_rdd[1]
       /\ Len(data_rdd) = Cardinality(Kept)
       /\ \A k \in 1..Len(data_rdd) : data_rdd[k] = raw_rdd[KthKept(k)]
       /\ \A w \in Workers : pc[w].at # "idle" => locals[w].line # raw_rdd[1]

\* a feed with its first line repeated and an empty line is filtered, and
\* the empty line is handed to the function
C10_Witness ==
    /\ driver = "map"
    /\ Cardinality({i \in 1..Len(raw_rdd) : raw_rdd[i] = raw_rdd[1]}) >= 2
    /\ raw_rdd[1] # <<>>
    /\ \E w \in Workers : pc[w].at # "idle" /\ locals[w].line = <<>>

=============================================================================
